---- MODULE Spec2Model ----
(***************************************************************************)
(* Model of medical_app.py: a Streamlit script that loads the table        *)
(* "transactions" through a cached Supabase client, normalises it with     *)
(* pandas, filters it by the sidebar widgets, and computes the KPIs, the   *)
(* origin pie, the top-procedures ranking and the detail search.           *)
(*                                                                         *)
(* One script run (a render cycle) is the sequence of steps                *)
(*   start -> load -> sidebar -> kpis -> charts -> top -> search -> done   *)
(* and st.stop() or an uncaught exception ends it at "stopped".            *)
(*                                                                         *)
(* Representation of pandas values:                                        *)
(*   text cell      [na |-> BOOLEAN, s |-> sequence of one-char strings]   *)
(*   code cell      [na |-> BOOLEAN, s |-> string]  (source, Origen_Label) *)
(*   raw date cell  [k |-> "iso" | "bad" | "null", y, m]                   *)
(*   datetime cell  [nat |-> BOOLEAN, y, m]                                *)
(*   raw amount     [k |-> "num" | "bad" | "null", v]                      *)
(*   float cell     [nan |-> BOOLEAN, v]                                   *)
(*   '%Y-%m' string y * 100 + m (injective and order preserving)           *)
(***************************************************************************)
EXTENDS Integers, Sequences, FiniteSets, TLC

VARIABLES
    secrets,            \* st.secrets: the set of keys present
    client,             \* st.cache_resource entry of init_connection
    table,              \* rows of "transactions" as the store returns them
    cache,              \* st.cache_data entry of load_data
    loads,              \* number of snapshots load_data has produced
    queries,            \* what the user may type in the search box
    pc,                 \* position of the script run
    conn,               \* outcome of init_connection in this run
    queried,            \* this run issued a query to the store
    df,                 \* df = load_data(), with the snapshot it is
    selected_year,
    selected_months,
    selected_sources,
    df_filtered,
    kpi,                \* total_ingreso, total_tx, ticket_promedio, mejor_mes, mejor_mes_monto
    pie_data,
    top_n,
    top_procedimientos,
    text_search,
    df_results,
    shown,              \* elements the run has put on the page
    used                \* snapshot each computation of the run has read

vars == << secrets, client, table, cache, loads, queries, pc, conn, queried, df,
           selected_year, selected_months, selected_sources, df_filtered, kpi,
           pie_data, top_n, top_procedimientos, text_search, df_results,
           shown, used >>

sessionVars == << pc, conn, queried, df, selected_year, selected_months,
                  selected_sources, df_filtered, kpi, pie_data, top_n,
                  top_procedimientos, text_search, df_results, shown, used >>

(***************************************************************************)
(* Bounds of the model and constants of the program.                       *)
(***************************************************************************)
MaxRows == 3            \* rows in the table
MaxLoads == 3           \* snapshots produced in one behaviour
MaxTopN == 2            \* small values of the ranking's parameter n
TickSeconds == 300      \* seconds the clock advances in one step

ttl == 600              \* @st.cache_data(ttl=600)
RangeEnd == 7000        \* .range(0, 7000)
HeadN == 10             \* .head(10)
GlosaLen == 30          \* str(x)[:30]

(***************************************************************************)
(* Cells.                                                                  *)
(***************************************************************************)
NA == [na |-> TRUE, s |-> << >>]
Str(s) == [na |-> FALSE, s |-> s]
NoCode == [na |-> TRUE, s |-> ""]
Code(c) == [na |-> FALSE, s |-> c]
IsoDate(y, m) == [k |-> "iso", y |-> y, m |-> m]
BadDate == [k |-> "bad", y |-> 0, m |-> 0]
NullDate == [k |-> "null", y |-> 0, m |-> 0]
NaT == [nat |-> TRUE, y |-> 0, m |-> 0]
Num(v) == [k |-> "num", v |-> v]
BadNum == [k |-> "bad", v |-> 0]
NullNum == [k |-> "null", v |-> 0]
NaN == [nan |-> TRUE, v |-> 0]
Float(v) == [nan |-> FALSE, v |-> v]

Min(a, b) == IF a < b THEN a ELSE b

RECURSIVE SeqMap(_, _)
SeqMap(F(_), s) == IF s = << >> THEN << >> ELSE << F(Head(s)) >> \o SeqMap(F, Tail(s))

\* DataFrame.head(n)
head(s, n) == SubSeq(s, 1, Min(n, Len(s)))

(***************************************************************************)
(* 2. init_connection                                                      *)
(***************************************************************************)
SecretKeys == {"SUPABASE_URL", "SUPABASE_KEY"}

\* Halts without any client: a variant of init_connection that reports the
\* error and lets the script go on.
init_connection_no_stop(sec, createOk) ==
    IF SecretKeys \subseteq sec /\ createOk
    THEN [ok |-> TRUE, error |-> FALSE, stop |-> FALSE]
    ELSE [ok |-> FALSE, error |-> TRUE, stop |-> FALSE]

\* The body of init_connection: st.secrets[...] raises KeyError for an absent
\* key, create_client may raise; the handler shows st.error and calls st.stop().
init_connection(sec, createOk) ==
    IF SecretKeys \subseteq sec /\ createOk
    THEN [ok |-> TRUE, error |-> FALSE, stop |-> FALSE]
    ELSE [ok |-> FALSE, error |-> TRUE, stop |-> TRUE]

(***************************************************************************)
(* 3. load_data: type conversion and derived columns                       *)
(***************************************************************************)
\* pd.to_datetime(..., errors='coerce')
to_datetime(v) == IF v.k = "iso" THEN [nat |-> FALSE, y |-> v.y, m |-> v.m] ELSE NaT

\* pd.to_numeric(..., errors='coerce')
to_numeric(v) == IF v.k = "num" THEN Float(v.v) ELSE NaN

\* payment_date without the fillna of line 88
payment_date_unfilled(v, now) == to_datetime(v)

\* lines 82, 87-88: payment_date after to_datetime and fillna(pd.Timestamp.now())
payment_date(v, now) ==
    LET d == to_datetime(v)
    IN  IF d.nat THEN [nat |-> FALSE, y |-> now.y, m |-> now.m] ELSE d

\* line 84: pd.to_numeric(...).fillna(0)
net_amount(v) ==
    LET x == to_numeric(v)
    IN  IF x.nan THEN Float(0) ELSE x

\* line 91: .dt.strftime('%Y-%m')
Mes(d) == d.y * 100 + d.m

\* line 94: .dt.year.astype(int)
Anio(d) == d.y

OrigenTable ==
    [c \in {"CAS_A", "CAS_H", "AMCA"} |->
        CASE c = "CAS_A" -> "Alemana Ambulatorio"
          [] c = "CAS_H" -> "Alemana Hospitalario"
          [] c = "AMCA"  -> "AMCA (Sociedad/Privado)"]

\* Series.map(dict): a key that is not in the dict, a missing one included, gives NaN
map_origen(src) ==
    IF ~src.na /\ src.s \in DOMAIN OrigenTable THEN Code(OrigenTable[src.s]) ELSE NoCode

\* lines 96-100: .map({...}).fillna(df['source']); filling with a missing value
\* leaves the cell missing
Origen_Label(src) ==
    LET l == map_origen(src)
    IN  IF l.na THEN src ELSE l

\* 'Sin Descripción', the accent left out
SinDescripcion ==
    << "S", "i", "n", " ", "D", "e", "s", "c", "r", "i", "p", "c", "i", "o", "n" >>
Ellipsis == << ".", ".", "." >>

\* line 103
Glosa_Corta(desc) ==
    LET x == IF desc.na THEN SinDescripcion ELSE desc.s
    IN  IF Len(x) > GlosaLen THEN SubSeq(x, 1, GlosaLen) \o Ellipsis ELSE x

\* One row of the frame load_data returns
load_row(r, now) ==
    LET d == payment_date(r.payment_date, now)
    IN  [ payment_date     |-> d,
          event_date       |-> to_datetime(r.event_date),
          net_amount       |-> net_amount(r.net_amount),
          source           |-> r.source,
          description      |-> r.description,
          raw_patient_name |-> r.raw_patient_name,
          procedure_code   |-> r.procedure_code,
          Mes              |-> Mes(d),
          Anio             |-> Anio(d),
          Origen_Label     |-> Origen_Label(r.source),
          Glosa_Corta      |-> Glosa_Corta(r.description) ]

\* lines 69-73: the rows the query returns
response(t) == SubSeq(t, 1, Min(Len(t), RangeEnd + 1))

\* lines 75-105: the frame built from the response
load_data(t, now) ==
    LET data == response(t)
        Row(r) == load_row(r, now)
    IN  IF data = << >> THEN << >> ELSE SeqMap(Row, data)

(***************************************************************************)
(* 4. Sidebar: options of the widgets and the filter                       *)
(***************************************************************************)
\* line 118: df['Año'].unique()
years(rows) == { rows[i].Anio : i \in 1..Len(rows) }

\* line 124: df[df['Año'] == selected_year]['Mes'].unique()
months_available(rows, y) ==
    { rows[i].Mes : i \in { j \in 1..Len(rows) : rows[j].Anio = y } }

\* line 128: df['Origen_Label'].unique(); a missing label is one of the values
sources(rows) == { rows[i].Origen_Label : i \in 1..Len(rows) }

\* lines 132-135: Series.isin matches a missing value with a missing value
filter_year_sources(rows, y, O) ==
    SelectSeq(rows, LAMBDA r : r.Anio = y /\ r.Origen_Label \in O)

\* A month filter that takes the empty selection literally
filter_months_literal(rows, M) == SelectSeq(rows, LAMBDA r : r.Mes \in M)

\* lines 137-138: if selected_months: ...isin(selected_months)
filter_months(rows, M) ==
    IF M # {} THEN SelectSeq(rows, LAMBDA r : r.Mes \in M) ELSE rows

\* lines 132-138
apply_filters(rows, y, M, O) == filter_months(filter_year_sources(rows, y, O), M)

(***************************************************************************)
(* 5. KPIs, origin pie and ranking                                         *)
(***************************************************************************)
\* Series.sum(): missing values are skipped, the empty sum is 0
RECURSIVE sum(_)
sum(rows) ==
    IF rows = << >> THEN 0
    ELSE (IF Head(rows).net_amount.nan THEN 0 ELSE Head(rows).net_amount.v)
         + sum(Tail(rows))

\* line 155
total_ingreso(rows) == sum(rows)

\* line 156
total_tx(rows) == Len(rows)

\* A quotient [num, den]; den = 0 is the result of dividing by zero
Zero == [num |-> 0, den |-> 1]

\* The quotient with no test of total_tx
ticket_promedio_unguarded(total, n) == [num |-> total, den |-> n]

\* line 157
ticket_promedio(total, n) == IF n > 0 THEN [num |-> total, den |-> n] ELSE Zero

\* line 159: groupby('Mes')['net_amount'].sum()
ingreso_mensual(rows) ==
    [ k \in { rows[i].Mes : i \in 1..Len(rows) } |->
        sum(SelectSeq(rows, LAMBDA r : r.Mes = k)) ]

\* Series.max() of a non-empty series
max(f) == CHOOSE v \in { f[k] : k \in DOMAIN f } : \A k \in DOMAIN f : f[k] <= v

\* Series.idxmax(): the first label holding the maximum; groupby sorts the
\* labels ascending
idxmax(f) ==
    CHOOSE k \in DOMAIN f : f[k] = max(f) /\ \A j \in DOMAIN f : f[j] = max(f) => k <= j

\* line 160
mejor_mes(im) == IF DOMAIN im # {} THEN idxmax(im) ELSE "-"

\* line 161
mejor_mes_monto(im) == IF DOMAIN im # {} THEN max(im) ELSE 0

\* line 206: groupby('Origen_Label')['net_amount'].sum(); groupby drops the
\* rows whose key is missing
groupby_origen(rows) ==
    [ k \in { l \in { rows[i].Origen_Label : i \in 1..Len(rows) } : ~l.na } |->
        sum(SelectSeq(rows, LAMBDA r : r.Origen_Label = k)) ]

\* line 232: groupby('description')['net_amount'].sum(); groupby drops the
\* rows whose key is missing
groupby_description(rows) ==
    [ k \in { d \in { rows[i].description : i \in 1..Len(rows) } : ~d.na } |->
        sum(SelectSeq(rows, LAMBDA r : r.description = k)) ]

Orders(g) ==
    LET n == Cardinality(DOMAIN g)
    IN  { p \in [1..n -> DOMAIN g] : \A i, j \in 1..n : i # j => p[i] # p[j] }

AsRows(g, p) == [ i \in DOMAIN p |-> [description |-> p[i], net_amount |-> g[p[i]]] ]

\* The orders of an ascending sort
sort_values_ascending(g) ==
    { AsRows(g, p) : p \in { q \in Orders(g) :
        \A i, j \in DOMAIN q : i < j => g[q[i]] <= g[q[j]] } }

\* line 233: sort_values('net_amount', ascending=False); the default sort is
\* not stable, so groups of equal sum come in any order
sort_values_descending(g) ==
    { AsRows(g, p) : p \in { q \in Orders(g) :
        \A i, j \in DOMAIN q : i < j => g[q[i]] >= g[q[j]] } }

\* lines 232-233 with head(10) read as head(n): the rankings the view can show
rankings(rows, n) == { head(s, n) : s \in sort_values_descending(groupby_description(rows)) }

(***************************************************************************)
(* 6. Search                                                               *)
(***************************************************************************)
Upper == << "A", "E", "J", "N", "O", "P", "R", "Z" >>
Lower == << "a", "e", "j", "n", "o", "p", "r", "z" >>

\* case=False: letters are compared folded to lower case
lower(c) ==
    IF \E i \in 1..Len(Upper) : Upper[i] = c
    THEN Lower[CHOOSE i \in 1..Len(Upper) : Upper[i] = c]
    ELSE c

\* Series.astype(str): str(None) is 'None'
astype_str(x) == IF x.na THEN Str(<< "N", "o", "n", "e" >>) ELSE x

\* re.search(pat, s, re.IGNORECASE) for patterns of literals and "."
re_search(pat, s) ==
    \E i \in 1..(Len(s) - Len(pat) + 1) :
        \A j \in 1..Len(pat) : pat[j] = "." \/ lower(pat[j]) = lower(s[i + j - 1])

\* Series.str.contains(pat, case=False, na=False): regex=True is the default
str_contains(x, pat) == IF x.na THEN FALSE ELSE re_search(pat, x.s)

\* lines 254-257
mask(r, q) ==
    \/ str_contains(astype_str(r.raw_patient_name), q)
    \/ str_contains(astype_str(r.description), q)

\* line 258: df[mask]
search(rows, q) == SelectSeq(rows, LAMBDA r : mask(r, q))

(***************************************************************************)
(* State of a script run                                                   *)
(***************************************************************************)
NoFrame == [snap |-> 0, rows |-> << >>]
NoKpi == [ total_ingreso |-> 0, total_tx |-> 0, ticket_promedio |-> Zero,
           mejor_mes |-> "-", mejor_mes_monto |-> 0 ]
EmptyGroups == [ k \in {} |-> 0 ]

\* pd.Timestamp.now() at the time of a load
Nows == { [y |-> 2024, m |-> 3], [y |-> 2025, m |-> 1] }

Fresh(c) == c.valid /\ c.age < ttl

RunInit ==
    /\ pc = "start"
    /\ conn = "none"
    /\ queried = FALSE
    /\ df = NoFrame
    /\ selected_year = 0
    /\ selected_months = {}
    /\ selected_sources = {}
    /\ df_filtered = NoFrame
    /\ kpi = NoKpi
    /\ pie_data = EmptyGroups
    /\ top_n = 0
    /\ top_procedimientos = << >>
    /\ text_search = << >>
    /\ df_results = << >>
    /\ shown = {}
    /\ used = {}

\* The frame the search reads when it calls load_data() once more
search_frame_reloaded ==
    IF Fresh(cache) THEN cache.frame
    ELSE [snap |-> loads + 1, rows |-> load_data(table, CHOOSE n \in Nows : TRUE)]

\* lines 254-258: the search reads the df of line 107
search_frame == df

(***************************************************************************)
(* Steps of a script run                                                   *)
(***************************************************************************)
\* line 60: supabase = init_connection(), behind st.cache_resource
InitConnection ==
    /\ pc = "start"
    /\ \/ /\ client = "cached"
          /\ conn' = "ok"
          /\ pc' = "load"
          /\ UNCHANGED << client, shown >>
       \/ /\ client = "none"
          /\ \E createOk \in BOOLEAN :
                LET r == init_connection(secrets, createOk)
                IN  /\ conn' = IF r.ok THEN "ok" ELSE "failed"
                    /\ client' = IF r.ok THEN "cached" ELSE client
                    /\ shown' = IF r.error THEN shown \cup {"error"} ELSE shown
                    /\ pc' = IF r.stop THEN "stopped" ELSE "load"
    /\ UNCHANGED << secrets, table, cache, loads, queries, queried, df,
                    selected_year, selected_months, selected_sources,
                    df_filtered, kpi, pie_data, top_n, top_procedimientos,
                    text_search, df_results, used >>

\* line 107: df = load_data(), behind st.cache_data(ttl=600)
LoadData ==
    /\ pc = "load"
    /\ \/ /\ Fresh(cache)                       \* a hit returns a copy of the entry
          /\ df' = cache.frame
          /\ pc' = "sidebar"
          /\ UNCHANGED << cache, loads, queried, shown >>
       \/ /\ ~Fresh(cache)                      \* the query is issued and answered
          /\ conn = "ok"
          /\ loads < MaxLoads
          /\ \E now \in Nows :
                LET f == [snap |-> loads + 1, rows |-> load_data(table, now)]
                IN  /\ df' = f
                    /\ cache' = [valid |-> TRUE, age |-> 0, frame |-> f]
          /\ loads' = loads + 1
          /\ queried' = TRUE
          /\ pc' = "sidebar"
          /\ UNCHANGED shown
       \/ /\ ~Fresh(cache)                      \* the call raises: the run ends
          /\ queried' = (conn = "ok")           \* with the exception on the page
          /\ shown' = shown \cup {"exception"}
          /\ pc' = "stopped"
          /\ UNCHANGED << cache, loads, df >>
    /\ UNCHANGED << secrets, client, table, queries, conn, selected_year,
                    selected_months, selected_sources, df_filtered, kpi,
                    pie_data, top_n, top_procedimientos, text_search,
                    df_results, used >>

\* lines 112-144
Sidebar ==
    /\ pc = "sidebar"
    /\ \/ /\ df.rows = << >>                    \* st.warning, st.stop()
          /\ shown' = shown \cup {"warning"}
          /\ pc' = "stopped"
          /\ UNCHANGED << selected_year, selected_months, selected_sources,
                          df_filtered, used >>
       \/ /\ df.rows # << >>
          /\ \E y \in years(df.rows) :
             \E M \in SUBSET months_available(df.rows, y) :
             \E O \in SUBSET sources(df.rows) :
                /\ selected_year' = y
                /\ selected_months' = M
                /\ selected_sources' = O
                /\ df_filtered' = [snap |-> df.snap,
                                   rows |-> apply_filters(df.rows, y, M, O)]
          /\ shown' = shown \cup {"filters"}
          /\ used' = used \cup {df.snap}
          /\ pc' = "kpis"
    /\ UNCHANGED << secrets, client, table, cache, loads, queries, conn, queried,
                    df, kpi, pie_data, top_n, top_procedimientos, text_search,
                    df_results >>

\* lines 155-179
Kpis ==
    /\ pc = "kpis"
    /\ LET total == total_ingreso(df_filtered.rows)
           n == total_tx(df_filtered.rows)
           im == ingreso_mensual(df_filtered.rows)
       IN  kpi' = [ total_ingreso   |-> total,
                    total_tx        |-> n,
                    ticket_promedio |-> ticket_promedio(total, n),
                    mejor_mes       |-> mejor_mes(im),
                    mejor_mes_monto |-> mejor_mes_monto(im) ]
    /\ shown' = shown \cup {"kpis"}
    /\ used' = used \cup {df_filtered.snap}
    /\ pc' = "charts"
    /\ UNCHANGED << secrets, client, table, cache, loads, queries, conn, queried,
                    df, selected_year, selected_months, selected_sources,
                    df_filtered, pie_data, top_n, top_procedimientos,
                    text_search, df_results >>

\* lines 184-227: the monthly chart is drawn from df_filtered, the pie from pie_data
Charts ==
    /\ pc = "charts"
    /\ pie_data' = groupby_origen(df_filtered.rows)
    /\ shown' = shown \cup {"monthly", "pie"}
    /\ used' = used \cup {df_filtered.snap}
    /\ pc' = "top"
    /\ UNCHANGED << secrets, client, table, cache, loads, queries, conn, queried,
                    df, selected_year, selected_months, selected_sources,
                    df_filtered, kpi, top_n, top_procedimientos, text_search,
                    df_results >>

\* lines 230-242: the view uses n = 10; the ranking is taken for small n too,
\* so that it truncates on small frames
Top ==
    /\ pc = "top"
    /\ \E n \in (1..MaxTopN) \cup {HeadN} :
       \E r \in rankings(df_filtered.rows, n) :
          /\ top_n' = n
          /\ top_procedimientos' = r
    /\ shown' = shown \cup {"top"}
    /\ used' = used \cup {df_filtered.snap}
    /\ pc' = "search"
    /\ UNCHANGED << secrets, client, table, cache, loads, queries, conn, queried,
                    df, selected_year, selected_months, selected_sources,
                    df_filtered, kpi, pie_data, text_search, df_results >>

\* lines 250-284
Search ==
    /\ pc = "search"
    /\ \E q \in queries :
          /\ text_search' = q
          /\ IF q # << >>
             THEN /\ df_results' = search(search_frame.rows, q)
                  /\ shown' = shown \cup
                        { IF df_results' # << >> THEN "results" ELSE "no_results" }
                  /\ used' = used \cup {search_frame.snap}
             ELSE /\ df_results' = head(df_filtered.rows, HeadN)
                  /\ shown' = shown \cup {"listing"}
                  /\ used' = used \cup {df_filtered.snap}
    /\ pc' = "done"
    /\ UNCHANGED << secrets, client, table, cache, loads, queries, conn, queried,
                    df, selected_year, selected_months, selected_sources,
                    df_filtered, kpi, pie_data, top_n, top_procedimientos >>

\* A widget changes or the page is reloaded: the script runs again from the top
Rerun ==
    /\ pc \in {"done", "stopped"}
    /\ pc' = "start"
    /\ conn' = "none"
    /\ queried' = FALSE
    /\ df' = NoFrame
    /\ selected_year' = 0
    /\ selected_months' = {}
    /\ selected_sources' = {}
    /\ df_filtered' = NoFrame
    /\ kpi' = NoKpi
    /\ pie_data' = EmptyGroups
    /\ top_n' = 0
    /\ top_procedimientos' = << >>
    /\ text_search' = << >>
    /\ df_results' = << >>
    /\ shown' = {}
    /\ used' = {}
    /\ UNCHANGED << secrets, client, table, cache, loads, queries >>

(***************************************************************************)
(* Environment                                                             *)
(***************************************************************************)
\* Time passes: the entry of load_data ages until it expires
Tick ==
    /\ Fresh(cache)
    /\ cache' = [cache EXCEPT !.age = @ + TickSeconds]
    /\ UNCHANGED << secrets, client, table, loads, queries, sessionVars >>

\* load_data() of another session's run finds the entry expired and replaces it
OtherSessionLoad ==
    /\ client = "cached"
    /\ ~Fresh(cache)
    /\ loads < MaxLoads
    /\ \E now \in Nows :
          cache' = [ valid |-> TRUE, age |-> 0,
                     frame |-> [snap |-> loads + 1, rows |-> load_data(table, now)] ]
    /\ loads' = loads + 1
    /\ UNCHANGED << secrets, client, table, queries, sessionVars >>

(***************************************************************************)
(* Inputs                                                                  *)
(***************************************************************************)
Tables(R, n) == UNION { [1..k -> R] : k \in 0..n }

PerezJuan == << "P", "E", "R", "E", "Z", ",", " ", "J", "u", "a", "n" >>
perez == << "p", "e", "r", "e", "z" >>
none == << "n", "o", "n", "e" >>
Codigo == << "2", "1" >>

RawRow(d, a, src, desc, name, code) ==
    [ payment_date |-> d, event_date |-> d, net_amount |-> a, source |-> src,
      description |-> desc, raw_patient_name |-> name, procedure_code |-> code ]

\* Rows of uneven quality: dates and amounts that parse, do not parse, are absent
RowsLoad ==
    { RawRow(d, a, Code("CAS_A"), Str(<< "A" >>), Str(PerezJuan), Str(Codigo)) :
        d \in { IsoDate(2024, 1), BadDate, NullDate },
        a \in { Num(100), BadNum, NullNum } }

\* Rows of every kind of source: mapped, unmapped, absent
RowsOrigen ==
    { RawRow(IsoDate(2024, 1), Num(100), src, Str(<< "A" >>), Str(PerezJuan), Str(Codigo)) :
        src \in { Code("CAS_A"), Code("CAS_H"), Code("AMCA"), Code("OTRO"), NoCode } }

\* Rows of two years, three months and two origins, one of them absent
RowsFilter ==
    { RawRow(d, Num(100), src, Str(<< "A" >>), Str(PerezJuan), Str(Codigo)) :
        d \in { IsoDate(2023, 12), IsoDate(2024, 1), IsoDate(2024, 2) },
        src \in { Code("CAS_A"), NoCode } }

\* Rows of three descriptions and three amounts, and a row with no description
RowsTop ==
    { RawRow(IsoDate(2024, 1), a, Code("CAS_A"), desc, Str(PerezJuan), Str(Codigo)) :
        a \in { Num(10), Num(50), Num(200) },
        desc \in { Str(<< "A" >>), Str(<< "B" >>), Str(<< "C" >>) } }
    \cup { RawRow(IsoDate(2024, 1), Num(200), Code("CAS_A"), NA, Str(PerezJuan), Str(Codigo)) }

\* Rows whose searched fields are present or absent
RowsSearch ==
    { RawRow(IsoDate(2024, 1), Num(100), Code("CAS_A"), desc, name, code) :
        desc \in { Str(<< "a", "z" >>), NA },
        name \in { Str(PerezJuan), NA },
        code \in { Str(Codigo), NA } }

RowsRender ==
    { RawRow(IsoDate(2024, 1), Num(a), Code("CAS_A"), Str(<< "A" >>), Str(PerezJuan), Str(Codigo)) :
        a \in { 10, 50 } }
TablesRender == Tables(RowsRender, 1)

QueriesFew == { << >>, perez }
QueriesSearch == { << >>, perez, Codigo, none, << "." >> }

InitWith(T, Q) ==
    /\ secrets \in SUBSET SecretKeys
    /\ client = "none"
    /\ table \in T
    /\ cache = [valid |-> FALSE, age |-> 0, frame |-> NoFrame]
    /\ loads = 0
    /\ queries = Q
    /\ RunInit

\* The store's table changes
TableChange ==
    /\ \E t \in TablesRender \ {table} : table' = t
    /\ UNCHANGED << secrets, client, cache, loads, queries, sessionVars >>

Run == InitConnection \/ LoadData \/ Sidebar \/ Kpis \/ Charts \/ Top \/ Search \/ Rerun

(***************************************************************************)
(* Specifications                                                          *)
(***************************************************************************)
\* Render cycles against a store that changes and a cache that expires
Init == InitWith(TablesRender, QueriesFew)
Next == Run \/ Tick \/ OtherSessionLoad \/ TableChange
Spec == Init /\ [][Next]_vars

\* Render cycles over every small table of a kind of rows
InitLoad == InitWith(Tables(RowsLoad, MaxRows - 1), QueriesFew)
SpecLoad == InitLoad /\ [][Run]_vars

InitOrigen == InitWith(Tables(RowsOrigen, MaxRows - 1), QueriesFew)
SpecOrigen == InitOrigen /\ [][Run]_vars

InitFilter == InitWith(Tables(RowsFilter, MaxRows), QueriesFew)
SpecFilter == InitFilter /\ [][Run]_vars

InitTop == InitWith(Tables(RowsTop, MaxRows), QueriesFew)
SpecTop == InitTop /\ [][Run]_vars

InitSearch == InitWith(Tables(RowsSearch, MaxRows - 1), QueriesSearch)
SpecSearch == InitSearch /\ [][Run]_vars

(***************************************************************************)
(* Properties                                                              *)
(***************************************************************************)
Amount(r) == IF r.net_amount.nan THEN 0 ELSE r.net_amount.v

RECURSIVE SumOver(_, _)
SumOver(f, S) ==
    IF S = {} THEN 0
    ELSE LET k == CHOOSE x \in S : TRUE IN f[k] + SumOver(f, S \ {k})

\* The sum of the amounts of the rows of a frame that satisfy P
SumWhere(rows, P(_)) ==
    SumOver([i \in 1..Len(rows) |-> Amount(rows[i])], { i \in 1..Len(rows) : P(rows[i]) })

\* out is the subsequence of rows at the indices idx, in the order of rows
IsSelection(out, rows, idx) ==
    /\ Len(out) = Cardinality(idx)
    /\ \E f \in [1..Len(out) -> idx] :
          /\ \A a, b \in 1..Len(out) : a < b => f[a] < f[b]
          /\ \A a \in 1..Len(out) : out[a] = rows[f[a]]

\* C1: the filtered frame is exactly the rows of df, in the order of df, whose
\* year is the selected year, whose origin label is one of the selected labels
\* and, when months are selected, whose month is one of them; with no month
\* selected there is no restriction on the month, with no origin selected the
\* result is empty.
C1_FilterExact ==
    "filters" \in shown =>
        LET Matches(r) ==
                /\ r.Anio = selected_year
                /\ r.Origen_Label \in selected_sources
                /\ (selected_months = {} \/ r.Mes \in selected_months)
        IN  /\ IsSelection(df_filtered.rows, df.rows,
                           { i \in 1..Len(df.rows) : Matches(df.rows[i]) })
            /\ (selected_sources = {} => df_filtered.rows = << >>)

\* A filter with no month selected that keeps two different rows of two months
\* and leaves rows of df out
C1_Witness ==
    /\ "filters" \in shown
    /\ selected_months = {}
    /\ Len(df_filtered.rows) = 2
    /\ Len(df.rows) = 3
    /\ df_filtered.rows[1].Mes # df_filtered.rows[2].Mes

\* C2: after load_data every row has a payment_date that is not missing (the
\* time of the load where the source value is unparseable or absent, the
\* source date otherwise) and a net_amount that is a number (0 where the source
\* value is unparseable or absent, the source amount otherwise); no row is lost.
C2_Normalized ==
    df.snap # 0 =>
        /\ Len(df.rows) = Len(table)
        /\ \A i \in 1..Len(df.rows) :
              LET r == df.rows[i]
                  raw == table[i]
              IN  /\ ~r.payment_date.nat
                  /\ ~r.net_amount.nan
                  /\ IF raw.payment_date.k = "iso"
                     THEN r.payment_date.y = raw.payment_date.y
                          /\ r.payment_date.m = raw.payment_date.m
                     ELSE \E now \in Nows :
                             r.payment_date.y = now.y /\ r.payment_date.m = now.m
                  /\ r.net_amount.v = IF raw.net_amount.k = "num" THEN raw.net_amount.v ELSE 0

\* A loaded frame whose source has an unparseable and an absent date, an
\* unparseable and an absent amount
C2_Witness ==
    /\ df.snap # 0
    /\ \E i, j \in 1..Len(table) :
          /\ table[i].payment_date.k = "bad" /\ table[j].payment_date.k = "null"
          /\ table[i].net_amount.k = "null" /\ table[j].net_amount.k = "bad"

\* C3: every row of the loaded frame has an origin label that is not missing:
\* the table's entry for a mapped source, the source code itself otherwise.
C3_OrigenTotal ==
    df.snap # 0 =>
        \A i \in 1..Len(df.rows) :
            LET r == df.rows[i]
            IN  /\ ~r.Origen_Label.na
                /\ IF ~r.source.na /\ r.source.s \in DOMAIN OrigenTable
                   THEN r.Origen_Label.s = OrigenTable[r.source.s]
                   ELSE r.Origen_Label.s = r.source.s

\* C4: the sums of the groups of the origin pie add up to the total of the KPI
\* over the same filtered frame.
C4_SumConservation ==
    "pie" \in shown => SumOver(pie_data, DOMAIN pie_data) = kpi.total_ingreso

\* Literal, case-insensitive containment; a missing cell is the empty string
ContainsLiteral(x, q) ==
    LET s == IF x.na THEN << >> ELSE x.s
    IN  \E i \in 1..(Len(s) - Len(q) + 1) :
            \A j \in 1..Len(q) : lower(q[j]) = lower(s[i + j - 1])

\* C5: for a non-empty query the search returns, in the order of df, exactly
\* the rows of df where raw_patient_name, description or procedure_code
\* contains the query as a case-insensitive literal substring.
C5_SearchThreeFields ==
    (pc = "done" /\ text_search # << >>) =>
        IsSelection(df_results, df.rows,
            { i \in 1..Len(df.rows) :
                \/ ContainsLiteral(df.rows[i].raw_patient_name, text_search)
                \/ ContainsLiteral(df.rows[i].description, text_search)
                \/ ContainsLiteral(df.rows[i].procedure_code, text_search) })

\* C6: for a non-empty query a row whose searched fields are all missing is
\* never among the results.
C6_NullNeverMatches ==
    (pc = "done" /\ text_search # << >>) =>
        \A i \in 1..Len(df_results) :
            ~ ( /\ df_results[i].raw_patient_name.na
                /\ df_results[i].description.na
                /\ df_results[i].procedure_code.na )

\* C7: over an empty filtered frame the KPIs are the empty-state values: total
\* 0, count 0, average 0 (not a division by zero), best month "-" with 0.
C7_EmptyState ==
    ("kpis" \in shown /\ df_filtered.rows = << >>) =>
        /\ kpi.total_ingreso = 0
        /\ kpi.total_tx = 0
        /\ kpi.ticket_promedio = Zero
        /\ kpi.mejor_mes = "-"
        /\ kpi.mejor_mes_monto = 0

\* A run that went through every stage with a frame that has rows and a filter
\* that keeps none of them
C7_Witness ==
    /\ pc = "done"
    /\ df.rows # << >>
    /\ df_filtered.rows = << >>
    /\ "kpis" \in shown

C9_OneSnapshot == \A u \in used : u = df.snap

\* A finished run with a search, while the cache holds a later snapshot of
\* other rows
C9_Witness ==
    /\ pc = "done"
    /\ text_search # << >>
    /\ used = {df.snap}
    /\ cache.valid
    /\ cache.frame.snap > df.snap
    /\ cache.frame.rows # df.rows

\* C10: a run in which init_connection fails has stopped with the error on the
\* page and nothing else: no query issued, no frame loaded, no filter, KPI,
\* chart or table computed.
C10_ConnFailureHalts ==
    conn = "failed" =>
        /\ pc = "stopped"
        /\ shown = {"error"}
        /\ ~queried
        /\ df = NoFrame
        /\ used = {}

\* A run stopped by an absent access key
C10_Witness ==
    /\ conn = "failed"
    /\ "SUPABASE_KEY" \notin secrets
    /\ "SUPABASE_URL" \in secrets

====
